---- MODULE Spec2Model ----
(***************************************************************************)
(* Carnival Marketplace backend: the relational tables (users, carnival    *)
(* groups, categories, products), the bearer tokens, and the request       *)
(* handlers of routes/auth.js and routes/products.js, one step per         *)
(* awaited data-layer call so that concurrent requests interleave the way  *)
(* the event loop lets them; the read routes, the seeding script, the      *)
(* validation middleware and the server process (startup, rate limiter,    *)
(* health check, termination signals).                                     *)
(***************************************************************************)
EXTENDS Integers, FiniteSets, Sequences, TLC

\* groups, users, categories, products: the tables.  issued: the tokens the
\* server has signed.  now: the clock, in days.  req: the requests in flight.
\* mode: process.env.NODE_ENV.  seed: the seeding script's process.  proc: the
\* server process (server.js).
VARIABLES groups, users, categories, products, issued, now, req, mode, seed, proc

vars == <<groups, users, categories, products, issued, now, req, mode, seed, proc>>

(***************************************************************************)
(* Bounds of the model.                                                    *)
(***************************************************************************)
MaxTime == 7
MaxProducts == 1
MaxTokens == 1
MaxSeedRuns == 2
MaxDays == 2
MaxListed == 3
MaxExcess == 1

(***************************************************************************)
(* Program constants.                                                      *)
(***************************************************************************)
TokenTTL == 7

\* Identifier conventions: rows carry positive integer ids; NULL is the
\* absent / null value and MALFORMED a string that is not a UUID.
NULL == 0
MALFORMED == -1

Slots == {1, 2}

(***************************************************************************)
(* Input domains.                                                          *)
(***************************************************************************)
NoEmail == [local |-> "", domain |-> ""]
EmailA == [local |-> "a", domain |-> "b.com"]
EmailC == [local |-> "c", domain |-> "d.org"]
EmailBad == [local |-> "jan", domain |-> ""]
Emails == {EmailA, EmailC}

Passwords == {"Str0ng!Pass", "0ther!Pass"}

seedGroupsData == {[name |-> "Antwerp Devils", city |-> "Antwerp"]}

seedCategoriesData == {[name |-> "Costumes", slug |-> "costumes"]}

MaxGroupRows == Cardinality(seedGroupsData) + 1
GroupIdInputs == {NULL, MALFORMED} \cup (1 .. MaxGroupRows)

MaxCategoryRows == Cardinality(seedCategoriesData)
CategoryIdInputs == {NULL, MALFORMED} \cup (1 .. (MaxCategoryRows + 1))

MaxUserRows == Cardinality(Emails)

(***************************************************************************)
(* Schema / data layer (models/index.js).                                  *)
(***************************************************************************)
\* UUIDV4 default: a fresh identifier; rows are never deleted by the routes.
FreshId(rows) == Cardinality(rows) + 1

Ids(rows) == {x.id : x \in rows}

\* validate: { isEmail: true }
IsEmail(e) == e.local # "" /\ e.domain # ""

\* bcrypt.hash / bcrypt.compare: a one-way digest, never the clear text.
Hash(p) == <<"bcrypt", p>>
Compare(p, h) == h = Hash(p)

\* Model.findByPk on a UUID column: a string that is not a UUID is rejected
\* by the database when the query runs.
FindByPkError(id) == IF id = MALFORMED THEN "SequelizeDatabaseError" ELSE ""

\* CarnivalGroup.create: name is unique.
GroupCreateError(gs, row) ==
  IF row.name = "" \/ row.city = "" THEN "SequelizeValidationError"
  ELSE IF \E g \in gs : g.name = row.name THEN "SequelizeUniqueConstraintError"
  ELSE ""

\* User.create as it would behave without the unique index on email.
UserCreateErrorNoUnique(us, gs, row) ==
  IF \/ ~IsEmail(row.email)
     \/ row.firstName = "" \/ row.lastName = ""
     \/ row.carnivalGroupId = NULL
     THEN "SequelizeValidationError"
  ELSE IF row.carnivalGroupId = MALFORMED THEN "SequelizeDatabaseError"
  ELSE IF row.carnivalGroupId \notin Ids(gs) THEN "SequelizeForeignKeyConstraintError"
  ELSE ""

\* User.create: allowNull / isEmail validation runs before the INSERT; the
\* INSERT then checks the unique index on email and the foreign key.
UserCreateError(us, gs, row) ==
  IF \/ ~IsEmail(row.email)
     \/ row.firstName = "" \/ row.lastName = ""
     \/ row.carnivalGroupId = NULL
     THEN "SequelizeValidationError"
  ELSE IF row.carnivalGroupId = MALFORMED THEN "SequelizeDatabaseError"
  ELSE IF \E u \in us : u.email = row.email THEN "SequelizeUniqueConstraintError"
  ELSE IF row.carnivalGroupId \notin Ids(gs) THEN "SequelizeForeignKeyConstraintError"
  ELSE ""

\* The outcome of a data-layer call as far as the connection goes: every call
\* may fail with a connectivity error.
DbOutcomes == {"ok", "SequelizeConnectionError"}

\* process.env.NODE_ENV
Modes == {"production", "development"}


(***************************************************************************)
(* Authentication helper (jsonwebtoken).                                   *)
(***************************************************************************)
\* process.env.JWT_SECRET || 'carnival-secret-key'
Secret == "carnival-secret-key"

NoToken == [form |-> "none", userId |-> NULL, iat |-> 0, exp |-> 0, key |-> ""]
Garbage == [form |-> "malformed", userId |-> NULL, iat |-> 0, exp |-> 0, key |-> ""]

\* jwt.sign(payload, key, { expiresIn: '7d' }) at clock time t
Sign(userId, key, t) ==
  [form |-> "jwt", userId |-> userId, iat |-> t, exp |-> t + TokenTTL, key |-> key]

\* generateToken as it would be with a validity one day short.
generateTokenShort(userId, t) ==
  [form |-> "jwt", userId |-> userId, iat |-> t, exp |-> t + TokenTTL - 1, key |-> Secret]

generateToken(userId, t) == Sign(userId, Secret, t)

\* jwt.verify(token, key) at clock time t: the name of the error thrown, or ""
\* when the token verifies.  The signature is checked before the expiry.
jwtVerify(tok, t) ==
  IF tok.form # "jwt" THEN "JsonWebTokenError"
  ELSE IF tok.key # Secret THEN "JsonWebTokenError"
  ELSE IF t >= tok.exp THEN "TokenExpiredError"
  ELSE ""

(***************************************************************************)
(* Requests in flight: one record per connection slot.                     *)
(***************************************************************************)
NoBody == [none |-> TRUE]
NoView == [id |-> NULL]

\* kind, body, token: the request (route, JSON body or id parameter,
\* Authorization header).  existingUser, groupId, userId: the handler's
\* locals.  status, error, details, token, user, rows, count: the response.
\* History kept for the properties: sent (the body as the client sent it),
\* time (the clock when the request arrived), emptyDb (whether every table was empty then),
\* madeGroup and made (the ids of the rows the request inserted), thrown (the
\* name of the exception its catch block received) and at (the step that sent
\* the response).
IdleReq ==
  [pc |-> "idle", kind |-> "", body |-> NoBody, sent |-> NoBody, time |-> 0,
   emptyDb |-> FALSE,
   existingUser |-> NULL, groupId |-> NULL, userId |-> NULL,
   madeGroup |-> NULL, made |-> NULL, thrown |-> "", at |-> "",
   status |-> 0, error |-> "", details |-> "", token |-> NoToken, user |-> NoView,
   rows |-> <<>>, count |-> 0]

\* A request of the given kind arriving now.
Arrive(kind, body, auth) ==
  [IdleReq EXCEPT !.kind = kind, !.body = body, !.sent = body, !.token = auth,
                  !.time = now,
                  !.emptyDb = (groups = {} /\ users = {} /\ categories = {}
                               /\ products = {})]

\* res.status(s).json({ error: msg })
Respond(r, q, s, msg) ==
  req' = [req EXCEPT ![r] =
            [q EXCEPT !.pc = "done", !.at = req[r].pc, !.status = s, !.error = msg]]

\* res.status(s).json({ message, token, user, success: true })
RespondOk(r, q, s, tok, view) ==
  req' = [req EXCEPT ![r] =
            [q EXCEPT !.pc = "done", !.at = req[r].pc, !.status = s, !.token = tok,
                      !.user = view]]

\* The client has read the response; the slot serves the next request.
Finish(r) ==
  /\ req[r].pc = "done"
  /\ req' = [req EXCEPT ![r] = IdleReq]
  /\ UNCHANGED <<groups, users, categories, products, issued, now, mode, seed, proc>>

(***************************************************************************)
(* POST /api/auth/register (routes/auth.js).                               *)
(***************************************************************************)
RegisterBodies ==
  [email : Emails \cup {NoEmail, EmailBad},
   password : {"", "Str0ng!Pass"},
   firstName : {"", "Jan"},
   lastName : {"Peeters"},
   carnivalGroupId : GroupIdInputs]

\* catch (error) of the register handler
RegisterCatchStatus(name) ==
  IF name = "SequelizeValidationError" THEN 400
  ELSE IF name = "SequelizeUniqueConstraintError" THEN 400
  ELSE 500

RegisterCatchError(name) ==
  IF name = "SequelizeValidationError" THEN "Validation error"
  ELSE IF name = "SequelizeUniqueConstraintError" THEN "Email already exists"
  ELSE "Server error during registration"

\* details: the validation messages, nothing for the unique conflict, and for
\* the rest error.message in development mode only
RegisterCatchDetails(name, env) ==
  IF name = "SequelizeValidationError" THEN name
  ELSE IF name = "SequelizeUniqueConstraintError" THEN ""
  ELSE IF env = "development" THEN name
  ELSE "Internal server error"

RegisterCatch(r, q, name) ==
  Respond(r, [q EXCEPT !.thrown = name, !.details = RegisterCatchDetails(name, mode)],
          RegisterCatchStatus(name), RegisterCatchError(name))

\* The user as it would be returned with every attribute.
IncludePassword(u) == u

\* attributes: { exclude: ['password'] }
ExcludePassword(u) == [f \in (DOMAIN u) \ {"password"} |-> u[f]]

\* Entry: required-field check, then await User.findOne({ where: { email } })
RegisterStart(r, body, out) ==
  /\ req[r].pc = "idle"
  /\ LET q == Arrive("register", body, NoToken)
     IN IF body.email = NoEmail \/ body.password = "" \/ body.firstName = ""
           \/ body.lastName = ""
        THEN Respond(r, q, 400, "Email, password, first name, and last name are required")
        ELSE IF out # "ok" THEN RegisterCatch(r, q, out)
               ELSE IF \E u \in users : u.email = body.email
               THEN \E u \in users :
                      /\ u.email = body.email
                      /\ Respond(r, [q EXCEPT !.existingUser = u.id], 400,
                                 "User already exists with this email")
               ELSE req' = [req EXCEPT ![r] = [q EXCEPT !.pc = "reg_group"]]
  /\ UNCHANGED <<groups, users, categories, products, issued, now, mode, seed, proc>>

\* let groupId = carnivalGroupId; findOne() when absent, findByPk otherwise
RegisterGroup(r, out) ==
  /\ req[r].pc = "reg_group"
  /\ LET q == req[r]
         given == q.body.carnivalGroupId
     IN IF out # "ok" THEN RegisterCatch(r, q, out)
          ELSE IF given = NULL
          THEN IF groups # {}
               THEN \E g \in groups :
                      req' = [req EXCEPT ![r] = [q EXCEPT !.pc = "reg_create", !.groupId = g.id]]
               ELSE req' = [req EXCEPT ![r] = [q EXCEPT !.pc = "reg_newgroup"]]
          ELSE IF FindByPkError(given) # ""
          THEN RegisterCatch(r, q, FindByPkError(given))
          ELSE IF given \in Ids(groups)
          THEN req' = [req EXCEPT ![r] = [q EXCEPT !.pc = "reg_create", !.groupId = given]]
          ELSE req' = [req EXCEPT ![r] = [q EXCEPT !.pc = "reg_fallback"]]
  /\ UNCHANGED <<groups, users, categories, products, issued, now, mode, seed, proc>>

\* The fallback group as it would be with the verified flag left at its default.
DefaultGroupRowUnverified(id) ==
  [id |-> id, name |-> "Default Group", city |-> "Brussels", country |-> "Belgium",
   verified |-> FALSE]

DefaultGroupRow(id) ==
  [id |-> id, name |-> "Default Group", city |-> "Brussels", country |-> "Belgium",
   verified |-> TRUE]

\* await CarnivalGroup.create({ name: 'Default Group', ... })
RegisterNewGroup(r, out) ==
  /\ req[r].pc = "reg_newgroup"
  /\ LET q == req[r]
         row == DefaultGroupRow(FreshId(groups))
     IN IF out # "ok"
          THEN RegisterCatch(r, q, out) /\ UNCHANGED groups
          ELSE IF GroupCreateError(groups, row) # ""
          THEN RegisterCatch(r, q, GroupCreateError(groups, row)) /\ UNCHANGED groups
          ELSE /\ groups' = groups \cup {row}
               /\ req' = [req EXCEPT ![r] =
                            [q EXCEPT !.pc = "reg_create", !.groupId = row.id,
                                      !.madeGroup = row.id]]
  /\ UNCHANGED <<users, categories, products, issued, now, mode, seed, proc>>

\* the supplied id names no group: groupId = defaultGroup ? defaultGroup.id : null
RegisterFallback(r, out) ==
  /\ req[r].pc = "reg_fallback"
  /\ LET q == req[r]
     IN IF out # "ok" THEN RegisterCatch(r, q, out)
          ELSE IF groups # {}
          THEN \E g \in groups :
                 req' = [req EXCEPT ![r] = [q EXCEPT !.pc = "reg_create", !.groupId = g.id]]
          ELSE req' = [req EXCEPT ![r] = [q EXCEPT !.pc = "reg_create", !.groupId = NULL]]
  /\ UNCHANGED <<groups, users, categories, products, issued, now, mode, seed, proc>>

NewUserRow(id, body, groupId) ==
  [id |-> id, email |-> body.email, password |-> Hash(body.password),
   firstName |-> body.firstName, lastName |-> body.lastName,
   isActive |-> TRUE, lastLoginAt |-> NULL, carnivalGroupId |-> groupId]

\* bcrypt.hash, then await User.create({...})
RegisterCreate(r, out) ==
  /\ req[r].pc = "reg_create"
  /\ LET q == req[r]
         row == NewUserRow(FreshId(users), q.body, q.groupId)
     IN IF out # "ok"
          THEN RegisterCatch(r, q, out) /\ UNCHANGED users
          ELSE IF UserCreateError(users, groups, row) # ""
          THEN RegisterCatch(r, q, UserCreateError(users, groups, row)) /\ UNCHANGED users
          ELSE /\ users' = users \cup {row}
               /\ req' = [req EXCEPT ![r] =
                            [q EXCEPT !.pc = "reg_fetch", !.userId = row.id, !.made = row.id]]
  /\ UNCHANGED <<groups, categories, products, issued, now, mode, seed, proc>>

\* generateToken(user.id), await User.findByPk(user.id, ...), 201
RegisterFetch(r, out) ==
  /\ req[r].pc = "reg_fetch"
  /\ LET q == req[r]
         tok == generateToken(q.userId, now)
     IN IF out # "ok"
          THEN RegisterCatch(r, q, out) /\ UNCHANGED issued
          ELSE /\ \E u \in users :
                    /\ u.id = q.userId
                    /\ RespondOk(r, q, 201, tok, ExcludePassword(u))
               /\ issued' = issued \cup {tok}
  /\ UNCHANGED <<groups, users, categories, products, now, mode, seed, proc>>

(***************************************************************************)
(* POST /api/auth/login (routes/auth.js).                                  *)
(***************************************************************************)
LoginBodies ==
  [email : Emails, password : Passwords]
    \cup {[email |-> NoEmail, password |-> "Str0ng!Pass"],
          [email |-> EmailA, password |-> ""]}

\* the userData object of the login response
LoginView(u, t) ==
  [id |-> u.id, email |-> u.email, firstName |-> u.firstName, lastName |-> u.lastName,
   lastLoginAt |-> t, carnivalGroupId |-> u.carnivalGroupId]

\* Entry: field check, await User.findOne({ where: { email } }), isActive,
\* bcrypt.compare
LoginStart(r, body, out) ==
  /\ req[r].pc = "idle"
  /\ LET q == Arrive("login", body, NoToken)
     IN IF body.email = NoEmail \/ body.password = ""
        THEN Respond(r, q, 400, "Email and password are required")
        ELSE IF out # "ok"
               THEN Respond(r, [q EXCEPT !.thrown = out, !.details = out], 500,
                            "Server error during login")
               ELSE IF ~ \E u \in users : u.email = body.email
               THEN Respond(r, q, 401, "Invalid email or password")
               ELSE \E u \in users :
                      /\ u.email = body.email
                      /\ IF ~u.isActive
                         THEN Respond(r, [q EXCEPT !.userId = u.id], 401, "Account is deactivated")
                         ELSE IF ~Compare(body.password, u.password)
                         THEN Respond(r, [q EXCEPT !.userId = u.id], 401,
                                      "Invalid email or password")
                         ELSE req' = [req EXCEPT ![r] =
                                        [q EXCEPT !.pc = "login_update", !.userId = u.id]]
  /\ UNCHANGED <<groups, users, categories, products, issued, now, mode, seed, proc>>

\* The step as it would be if it left the stored lastLoginAt alone.
LoginUpdateKeepsStamp(r, out) ==
  /\ req[r].pc = "login_update"
  /\ LET q == req[r]
     IN IF out # "ok"
          THEN /\ Respond(r, [q EXCEPT !.thrown = out, !.details = out], 500,
                          "Server error during login")
               /\ UNCHANGED <<users, issued>>
          ELSE \E u \in users :
                 /\ u.id = q.userId
                 /\ users' = users
                 /\ issued' = issued \cup {generateToken(u.id, now)}
                 /\ RespondOk(r, q, 200, generateToken(u.id, now), LoginView(u, now))
  /\ UNCHANGED <<groups, categories, products, now, mode, seed, proc>>

\* await user.update({ lastLoginAt: new Date() }), generateToken, 200
LoginUpdate(r, out) ==
  /\ req[r].pc = "login_update"
  /\ LET q == req[r]
     IN IF out # "ok"
          THEN /\ Respond(r, [q EXCEPT !.thrown = out, !.details = out], 500,
                          "Server error during login")
               /\ UNCHANGED <<users, issued>>
          ELSE \E u \in users :
                 /\ u.id = q.userId
                 /\ users' = (users \ {u}) \cup {[u EXCEPT !.lastLoginAt = now]}
                 /\ issued' = issued \cup {generateToken(u.id, now)}
                 /\ RespondOk(r, q, 200, generateToken(u.id, now), LoginView(u, now))
  /\ UNCHANGED <<groups, categories, products, now, mode, seed, proc>>

(***************************************************************************)
(* GET /api/auth/me (routes/auth.js).                                      *)
(***************************************************************************)
\* What a client can put in the Authorization header: nothing, a string
\* that is no token, a token the server issued, or one signed with another
\* key.
Forged == {Sign(u, "attacker-key", now) : u \in 1 .. MaxUserRows}

AuthHeaders == {NoToken, Garbage} \cup issued \cup Forged

\* catch (error) of the me handler
MeCatchError(name) ==
  IF name = "JsonWebTokenError" THEN "Invalid token"
  ELSE IF name = "TokenExpiredError" THEN "Token expired"
  ELSE "Server error"

MeCatchStatus(name) ==
  IF name \in {"JsonWebTokenError", "TokenExpiredError"} THEN 401 ELSE 500

Me(r, auth, out) ==
  /\ req[r].pc = "idle"
  /\ LET q == Arrive("me", NoBody, auth)
     IN IF auth.form = "none"
        THEN Respond(r, q, 401, "No token provided")
        ELSE IF jwtVerify(auth, now) # ""
        THEN Respond(r, [q EXCEPT !.thrown = jwtVerify(auth, now)],
                     MeCatchStatus(jwtVerify(auth, now)), MeCatchError(jwtVerify(auth, now)))
        ELSE IF out # "ok"
               THEN Respond(r, [q EXCEPT !.thrown = out], MeCatchStatus(out), MeCatchError(out))
               ELSE IF auth.userId \notin Ids(users)
               THEN Respond(r, q, 401, "User not found")
               ELSE \E u \in users :
                      /\ u.id = auth.userId
                      /\ RespondOk(r, [q EXCEPT !.userId = u.id], 200, auth, ExcludePassword(u))
  /\ UNCHANGED <<groups, users, categories, products, issued, now, mode, seed, proc>>

(***************************************************************************)
(* POST /api/products (routes/products.js).                                *)
(***************************************************************************)
\* A price as it arrives in the JSON body: absent, a number, a numeric
\* string, or a string that is no number.  Amounts are in cents.
Price(kind, cents) == [kind |-> kind, cents |-> cents]

PriceInputs ==
  {Price("absent", 0), Price("number", 0), Price("number", -500), Price("number", 1250),
   Price("string", 1250), Price("string", 0), Price("text", 0)}

\* !price
PriceFalsy(p) == p.kind = "absent" \/ (p.kind = "number" /\ p.cents = 0)

\* parseFloat(price)
parseFloat(p) ==
  IF p.kind \in {"number", "string"} THEN [nan |-> FALSE, cents |-> p.cents]
  ELSE [nan |-> TRUE, cents |-> 0]

Conditions == {"new", "like-new", "good", "fair", "needs-repair"}

BaseProductBody ==
  [title |-> "Gilles hat", description |-> "Feathered hat", price |-> Price("number", 1250),
   condition |-> "", categoryId |-> 1, sellerId |-> NULL, isAvailable |-> TRUE]

ProductBodies ==
  {[BaseProductBody EXCEPT !.price = p] : p \in PriceInputs}
    \cup {[BaseProductBody EXCEPT !.categoryId = c] : c \in CategoryIdInputs}
    \cup {[BaseProductBody EXCEPT !.sellerId = u, !.isAvailable = FALSE] : u \in 1 .. MaxUserRows}
    \cup {[BaseProductBody EXCEPT !.condition = "mint"]}
    \cup {[BaseProductBody EXCEPT !.title = ""], [BaseProductBody EXCEPT !.description = ""]}

\* validate: { min: 0.01 }: the validator compares the parsed number with the
\* minimum and has nothing to compare when the value is not a number, so NaN
\* passes; the DECIMAL column of the database stores NaN.
MinValidatorFails(price) == ~price.nan /\ price.cents < 1

\* Product.create as it would behave without the references on sellerId and
\* categoryId.
ProductCreateErrorNoFk(us, cs, row) ==
  IF MinValidatorFails(row.price) THEN "SequelizeValidationError"
  ELSE IF row.categoryId = NULL \/ row.sellerId = NULL THEN "SequelizeValidationError"
  ELSE IF row.categoryId = MALFORMED \/ row.condition \notin Conditions
       THEN "SequelizeDatabaseError"
  ELSE ""

\* Product.create: validation (price min 0.01) runs before the INSERT; the
\* INSERT checks the column types and the foreign keys.
ProductCreateError(us, cs, row) ==
  IF MinValidatorFails(row.price) THEN "SequelizeValidationError"
  ELSE IF row.categoryId = NULL \/ row.sellerId = NULL THEN "SequelizeValidationError"
  ELSE IF row.categoryId = MALFORMED \/ row.condition \notin Conditions
       THEN "SequelizeDatabaseError"
  ELSE IF row.sellerId \notin Ids(us) \/ row.categoryId \notin Ids(cs)
       THEN "SequelizeForeignKeyConstraintError"
  ELSE ""

\* authenticate as it would be if it turned deactivated accounts away.
AuthenticateErrorActiveOnly(auth, out, us, t) ==
  IF auth.form = "none" THEN "No token provided"
  ELSE IF jwtVerify(auth, t) # "" THEN "Invalid token"
  ELSE IF out # "ok" THEN "Invalid token"
  ELSE IF ~ \E u \in us : u.id = auth.userId /\ u.isActive THEN "User not found"
  ELSE ""

\* authenticate: the error of the 401 it sends, or "" when it calls next()
AuthenticateError(auth, out, us, t) ==
  IF auth.form = "none" THEN "No token provided"
  ELSE IF jwtVerify(auth, t) # "" THEN "Invalid token"
  ELSE IF out # "ok" THEN "Invalid token"
  ELSE IF auth.userId \notin Ids(us) THEN "User not found"
  ELSE ""

\* Entry: authenticate (await User.findByPk), then the handler's field check
\* and default-category lookup up to the awaited Product.create
ProductStart(r, body, auth, out) ==
  /\ req[r].pc = "idle"
  /\ LET q == Arrive("product", body, auth)
     IN IF AuthenticateError(auth, out, users, now) # ""
          THEN Respond(r, [q EXCEPT !.thrown = IF jwtVerify(auth, now) # ""
                                               THEN jwtVerify(auth, now)
                                               ELSE IF out # "ok" /\ auth.form # "none"
                                               THEN out ELSE ""],
                       401, AuthenticateError(auth, out, users, now))
          ELSE IF body.title = "" \/ body.description = "" \/ PriceFalsy(body.price)
                  \/ body.categoryId = NULL
          THEN Respond(r, [q EXCEPT !.userId = auth.userId], 400,
                       "Title, description, price, and category are required")
          ELSE req' = [req EXCEPT ![r] = [q EXCEPT !.pc = "prod_create", !.userId = auth.userId]]
  /\ UNCHANGED <<groups, users, categories, products, issued, now, mode, seed, proc>>

\* The row as it would be if the seller and the availability were taken from
\* the request body.
NewProductRowFromBody(id, body, sellerId) ==
  [id |-> id, title |-> body.title, description |-> body.description,
   price |-> parseFloat(body.price),
   condition |-> IF body.condition = "" THEN "good" ELSE body.condition,
   categoryId |-> body.categoryId,
   sellerId |-> IF body.sellerId # NULL THEN body.sellerId ELSE sellerId,
   isAvailable |-> body.isAvailable, createdAt |-> now]

\* The row Product.create is given; timestamps: true adds createdAt.
NewProductRow(id, body, sellerId) ==
  [id |-> id, title |-> body.title, description |-> body.description,
   price |-> parseFloat(body.price),
   condition |-> IF body.condition = "" THEN "good" ELSE body.condition,
   categoryId |-> body.categoryId, sellerId |-> sellerId, isAvailable |-> TRUE,
   createdAt |-> now]

\* await Product.create({...})
ProductCreate(r, out) ==
  /\ req[r].pc = "prod_create"
  /\ LET q == req[r]
         row == NewProductRow(FreshId(products), q.body, q.userId)
     IN IF out # "ok"
          THEN /\ Respond(r, [q EXCEPT !.thrown = out, !.details = out], 500,
                          "Failed to create product")
               /\ UNCHANGED products
          ELSE IF ProductCreateError(users, categories, row) # ""
          THEN /\ Respond(r, [q EXCEPT !.thrown = ProductCreateError(users, categories, row),
                                       !.details = ProductCreateError(users, categories, row)],
                          500, "Failed to create product")
               /\ UNCHANGED products
          ELSE /\ products' = products \cup {row}
               /\ req' = [req EXCEPT ![r] = [q EXCEPT !.pc = "prod_fetch", !.made = row.id]]
  /\ UNCHANGED <<groups, users, categories, issued, now, mode, seed, proc>>

\* await Product.findByPk(product.id, ...), 201
ProductFetch(r, out) ==
  /\ req[r].pc = "prod_fetch"
  /\ LET q == req[r]
     IN IF out # "ok"
          THEN Respond(r, [q EXCEPT !.thrown = out, !.details = out], 500,
                       "Failed to create product")
          ELSE RespondOk(r, q, 201, q.token, NoView)
  /\ UNCHANGED <<groups, users, categories, products, issued, now, mode, seed, proc>>

(***************************************************************************)
(* The read routes (routes/products.js, routes/carnivalGroups.js,          *)
(* routes/categories.js) and the error middleware of server.js.            *)
(***************************************************************************)
\* The names of the model in alphabetical order, for order: [['name', 'ASC']].
Alphabet ==
  <<"Antwerp Devils", "Brussels Masqueraders", "Costumes", "Default Group", "Masks">>

Rank(name) == CHOOSE i \in 1 .. Len(Alphabet) : Alphabet[i] = name

\* The ways to list the rows one after the other, each once.
Listings(rows) ==
  {s \in [1 .. Cardinality(rows) -> rows] :
     \A i, j \in 1 .. Cardinality(rows) : i # j => s[i] # s[j]}

\* order: [['createdAt', 'DESC']]; rows of one instant come in any order.
NewestFirst(rows) ==
  {s \in Listings(rows) :
     \A i, j \in 1 .. Cardinality(rows) : i < j => s[i].createdAt >= s[j].createdAt}

\* order: [['name', 'ASC']]
ByName(rows) ==
  {s \in Listings(rows) :
     \A i, j \in 1 .. Cardinality(rows) : i < j => Rank(s[i].name) <= Rank(s[j].name)}

\* The filter as it would be without the where clause.
AvailableOrNot(ps) == ps

\* where: { isAvailable: true }
Available(ps) == {p \in ps : p.isAvailable}

\* res.json({ success: true, ..., count })
RespondRows(r, q, list) ==
  req' = [req EXCEPT ![r] =
            [q EXCEPT !.pc = "done", !.at = req[r].pc, !.status = 200, !.rows = list,
                      !.count = Len(list)]]

\* catch (error) of the read routes: 500 with details: error.message
RespondFailure(r, q, name, msg) ==
  Respond(r, [q EXCEPT !.thrown = name, !.details = name], 500, msg)

\* GET /api/products
ListProducts(r, out) ==
  /\ req[r].pc = "idle"
  /\ LET q == Arrive("list_products", NoBody, NoToken)
     IN IF out # "ok" THEN RespondFailure(r, q, out, "Failed to fetch products")
        ELSE \E list \in NewestFirst(Available(products)) : RespondRows(r, q, list)
  /\ UNCHANGED <<groups, users, categories, products, issued, now, mode, seed, proc>>

\* GET /api/products/:id
GetProduct(r, id, out) ==
  /\ req[r].pc = "idle"
  /\ LET q == Arrive("get_product", [id |-> id], NoToken)
     IN IF out # "ok" THEN RespondFailure(r, q, out, "Failed to fetch product")
        ELSE IF FindByPkError(id) # ""
        THEN RespondFailure(r, q, FindByPkError(id), "Failed to fetch product")
        ELSE IF id \notin Ids(products) THEN Respond(r, q, 404, "Product not found")
        ELSE \E p \in products : p.id = id /\ RespondRows(r, q, <<p>>)
  /\ UNCHANGED <<groups, users, categories, products, issued, now, mode, seed, proc>>

\* The group with its active users (id, firstName, lastName).
GroupView(g, us) ==
  [id |-> g.id, name |-> g.name, city |-> g.city, country |-> g.country,
   verified |-> g.verified,
   Users |-> {[id |-> u.id, firstName |-> u.firstName, lastName |-> u.lastName] :
                u \in {x \in us : x.carnivalGroupId = g.id /\ x.isActive}}]

\* GET /api/carnival-groups/:id
GetGroup(r, id, out) ==
  /\ req[r].pc = "idle"
  /\ LET q == Arrive("get_group", [id |-> id], NoToken)
     IN IF out # "ok"
        THEN RespondFailure(r, q, out, "Server error while fetching carnival group")
        ELSE IF FindByPkError(id) # ""
        THEN RespondFailure(r, q, FindByPkError(id),
                            "Server error while fetching carnival group")
        ELSE IF id \notin Ids(groups) THEN Respond(r, q, 404, "Carnival group not found")
        ELSE \E g \in groups : g.id = id /\ RespondRows(r, q, <<GroupView(g, users)>>)
  /\ UNCHANGED <<groups, users, categories, products, issued, now, mode, seed, proc>>

\* GET /api/carnival-groups
ListGroups(r, out) ==
  /\ req[r].pc = "idle"
  /\ LET q == Arrive("list_groups", NoBody, NoToken)
     IN IF out # "ok"
        THEN RespondFailure(r, q, out, "Server error while fetching carnival groups")
        ELSE \E list \in ByName(groups) : RespondRows(r, q, list)
  /\ UNCHANGED <<groups, users, categories, products, issued, now, mode, seed, proc>>

\* GET /api/categories
ListCategories(r, out) ==
  /\ req[r].pc = "idle"
  /\ LET q == Arrive("list_categories", NoBody, NoToken)
     IN IF out # "ok" THEN RespondFailure(r, q, out, "Failed to fetch categories")
        ELSE \E list \in ByName(categories) : RespondRows(r, q, list)
  /\ UNCHANGED <<groups, users, categories, products, issued, now, mode, seed, proc>>

\* message: process.env.NODE_ENV === 'development' ? err.message : 'Something went wrong'
MiddlewareMessage(name, env) == IF env = "development" THEN name ELSE "Something went wrong"

\* The error middleware, reached when a middleware ahead of the routes passes
\* an error on: a body that is no JSON makes express.json() do so.
ErrorMiddleware(r, name) ==
  /\ req[r].pc = "idle"
  /\ LET q == Arrive("unparsed", NoBody, NoToken)
     IN IF name = "ValidationError" THEN Respond(r, [q EXCEPT !.thrown = name], 400,
                                                  "Validation Error")
        ELSE IF name = "SequelizeValidationError"
        THEN Respond(r, [q EXCEPT !.thrown = name, !.details = name], 400,
                     "Database Validation Error")
        ELSE Respond(r, [q EXCEPT !.thrown = name, !.details = MiddlewareMessage(name, mode)],
                     500, "Internal Server Error")
  /\ UNCHANGED <<groups, users, categories, products, issued, now, mode, seed, proc>>

(***************************************************************************)
(* Environment: account deactivation and the passage of time.              *)
(***************************************************************************)
\* isActive is cleared outside the routes shown (soft deactivation).
Deactivate(id) ==
  /\ \E u \in users :
       /\ u.id = id
       /\ u.isActive
       /\ users' = (users \ {u}) \cup {[u EXCEPT !.isActive = FALSE]}
  /\ UNCHANGED <<groups, categories, products, issued, now, req, mode, seed, proc>>

\* isAvailable is cleared outside the routes shown (the item is sold or
\* withdrawn).
Withdraw(id) ==
  /\ \E p \in products :
       /\ p.id = id
       /\ p.isAvailable
       /\ products' = (products \ {p}) \cup {[p EXCEPT !.isAvailable = FALSE]}
  /\ UNCHANGED <<groups, users, categories, issued, now, req, mode, seed, proc>>

\* One day passes.
Tick ==
  /\ now < MaxTime
  /\ now' = now + 1
  /\ UNCHANGED <<groups, users, categories, products, issued, req, mode, seed, proc>>

(***************************************************************************)
(* Seeding (scripts/seed-database.js): findOrCreate per record.            *)
(***************************************************************************)
SeedGroup(data) ==
  /\ ~ \E g \in groups : g.name = data.name /\ g.city = data.city
  /\ GroupCreateError(groups, [name |-> data.name, city |-> data.city]) = ""
  /\ groups' = groups \cup {[id |-> FreshId(groups), name |-> data.name, city |-> data.city,
                             country |-> "Belgium", verified |-> TRUE]}
  /\ UNCHANGED <<users, categories, products, issued, now, req, mode, seed, proc>>

SeedCategory(data) ==
  /\ ~ \E c \in categories : c.slug = data.slug
  /\ ~ \E c \in categories : c.name = data.name
  /\ categories' = categories \cup {[id |-> FreshId(categories), name |-> data.name,
                                     slug |-> data.slug]}
  /\ UNCHANGED <<groups, users, products, issued, now, req, mode, seed, proc>>

\* The seeding script as a process.  carnivalGroupsData and categoriesData:
\* the leading records of the script's two lists, in order.
carnivalGroupsData ==
  <<[name |-> "Antwerp Devils", city |-> "Antwerp"],
    [name |-> "Brussels Masqueraders", city |-> "Brussels"]>>

categoriesData ==
  <<[name |-> "Costumes", slug |-> "costumes"], [name |-> "Masks", slug |-> "masks"]>>

NoStats == [created |-> 0, skipped |-> 0]

\* The value seedDatabase returns; failed (the records whose findOrCreate
\* threw, which the script only logs) and lost (whether a call failed on the
\* connection) are kept for the properties.
NoReport ==
  [success |-> FALSE, carnivalGroups |-> NoStats, categories |-> NoStats,
   failed |-> 0, lost |-> FALSE]

\* pc: where the script is.  run: the invocations started so far.  i: the
\* index of the record the loop is at.  stats: the counters.  prev, last: the
\* values returned by the two latest invocations.
IdleSeed ==
  [pc |-> "idle", run |-> 0, i |-> 1, stats |-> NoReport, prev |-> NoReport,
   last |-> NoReport]

\* The lookup as it would be with the city compared to the wrong field.
FindGroupWrongCity(gs, data) == {g \in gs : g.name = data.name /\ g.city = data.name}

\* where: { name, city }
FindGroup(gs, data) == {g \in gs : g.name = data.name /\ g.city = data.city}

\* where: { slug }
FindCategory(cs, data) == {c \in cs : c.slug = data.slug}

\* Category.create: name and slug are unique.
CategoryCreateError(cs, row) ==
  IF row.name = "" \/ row.slug = "" THEN "SequelizeValidationError"
  ELSE IF \E c \in cs : c.name = row.name \/ c.slug = row.slug
       THEN "SequelizeUniqueConstraintError"
  ELSE ""

\* return { ... }; finally: sequelize.close()
SeedReturn(sd, report) ==
  [sd EXCEPT !.pc = "idle", !.i = 1, !.stats = NoReport, !.prev = sd.last, !.last = report]

\* node scripts/seed-database.js
SeedStart ==
  /\ seed.pc = "idle"
  /\ seed.run < MaxSeedRuns
  /\ seed' = [seed EXCEPT !.pc = "authenticate", !.run = seed.run + 1, !.i = 1,
                          !.stats = NoReport]
  /\ UNCHANGED <<groups, users, categories, products, issued, now, req, mode, proc>>

\* await sequelize.authenticate(); a failure goes to the outer catch
SeedAuthenticate(out) ==
  /\ seed.pc = "authenticate"
  /\ seed' = IF out # "ok"
             THEN SeedReturn(seed, [NoReport EXCEPT !.lost = TRUE])
             ELSE [seed EXCEPT !.pc = "sync"]
  /\ UNCHANGED <<groups, users, categories, products, issued, now, req, mode, proc>>

\* await sequelize.sync({ alter: true })
SeedSync(out) ==
  /\ seed.pc = "sync"
  /\ seed' = IF out # "ok"
             THEN SeedReturn(seed, [NoReport EXCEPT !.lost = TRUE])
             ELSE [seed EXCEPT !.pc = "groups", !.i = 1]
  /\ UNCHANGED <<groups, users, categories, products, issued, now, req, mode, proc>>

\* The loop as it would be if a record's failure ended the invocation.
SeedAdvanceAbortOnFailure(sd, stats, n, after) ==
  IF stats.failed > sd.stats.failed THEN SeedReturn(sd, stats)
  ELSE IF sd.i < n THEN [sd EXCEPT !.i = sd.i + 1, !.stats = stats]
  ELSE IF after = "return" THEN SeedReturn(sd, [stats EXCEPT !.success = TRUE])
  ELSE [sd EXCEPT !.pc = after, !.i = 1, !.stats = stats]

\* The loop has handled record i of a list of n records.
SeedAdvance(sd, stats, n, after) ==
  IF sd.i < n THEN [sd EXCEPT !.i = sd.i + 1, !.stats = stats]
  ELSE IF after = "return" THEN SeedReturn(sd, [stats EXCEPT !.success = TRUE])
  ELSE [sd EXCEPT !.pc = after, !.i = 1, !.stats = stats]

\* One turn of the loop over carnivalGroupsData: await
\* CarnivalGroup.findOrCreate({ where: { name, city }, defaults: groupData });
\* an exception is caught and logged per record.
SeedGroupsLoop(out) ==
  /\ seed.pc = "groups"
  /\ LET data == carnivalGroupsData[seed.i]
         row == [id |-> FreshId(groups), name |-> data.name, city |-> data.city,
                 country |-> "Belgium", verified |-> TRUE]
         st == seed.stats
         n == Len(carnivalGroupsData)
     IN IF out # "ok"
        THEN /\ seed' = SeedAdvance(seed, [st EXCEPT !.failed = @ + 1, !.lost = TRUE], n,
                                    "categories")
             /\ UNCHANGED groups
        ELSE IF FindGroup(groups, data) # {}
        THEN /\ seed' = SeedAdvance(seed, [st EXCEPT !.carnivalGroups.skipped = @ + 1], n,
                                    "categories")
             /\ UNCHANGED groups
        ELSE IF GroupCreateError(groups, row) # ""
        THEN /\ seed' = SeedAdvance(seed, [st EXCEPT !.failed = @ + 1], n, "categories")
             /\ UNCHANGED groups
        ELSE /\ groups' = groups \cup {row}
             /\ seed' = SeedAdvance(seed, [st EXCEPT !.carnivalGroups.created = @ + 1], n,
                                    "categories")
  /\ UNCHANGED <<users, categories, products, issued, now, req, mode, proc>>

\* One turn of the loop over categoriesData: await
\* Category.findOrCreate({ where: { slug }, defaults: categoryData }); after
\* the last record the script returns its statistics.
SeedCategoriesLoop(out) ==
  /\ seed.pc = "categories"
  /\ LET data == categoriesData[seed.i]
         row == [id |-> FreshId(categories), name |-> data.name, slug |-> data.slug]
         st == seed.stats
         n == Len(categoriesData)
     IN IF out # "ok"
        THEN /\ seed' = SeedAdvance(seed, [st EXCEPT !.failed = @ + 1, !.lost = TRUE], n,
                                    "return")
             /\ UNCHANGED categories
        ELSE IF FindCategory(categories, data) # {}
        THEN /\ seed' = SeedAdvance(seed, [st EXCEPT !.categories.skipped = @ + 1], n,
                                    "return")
             /\ UNCHANGED categories
        ELSE IF CategoryCreateError(categories, row) # ""
        THEN /\ seed' = SeedAdvance(seed, [st EXCEPT !.failed = @ + 1], n, "return")
             /\ UNCHANGED categories
        ELSE /\ categories' = categories \cup {row}
             /\ seed' = SeedAdvance(seed, [st EXCEPT !.categories.created = @ + 1], n,
                                    "return")
  /\ UNCHANGED <<groups, users, products, issued, now, req, mode, proc>>

(***************************************************************************)
(* The validation middleware (middleware/validation.js): Joi schemas       *)
(* applied to req.body with { abortEarly: false }.                         *)
(***************************************************************************)
\* JSON values of a body's fields.  A string is kept as its length and what
\* its characters make it (shape: an email address, a UUID, a phone number, a
\* password with the four character classes, a numeral, one of the
\* conditions, or plain text); a number as its value in thousandths.
Absent == [t |-> "undefined", len |-> 0, shape |-> "", n |-> 0]
Str(len, shape) == [t |-> "string", len |-> len, shape |-> shape, n |-> 0]
Num(milli) == [t |-> "number", len |-> 0, shape |-> "", n |-> milli]
Bool(b) == [t |-> "boolean", len |-> 0, shape |-> "", n |-> IF b THEN 1 ELSE 0]
Numeral(len, milli) == [t |-> "string", len |-> len, shape |-> "numeral", n |-> milli]

\* The JSON object with the fields of rec that are present.
Body(rec) == [k \in {x \in DOMAIN rec : rec[x] # Absent} |-> rec[k]]

\* One key of a Joi.object(): its type, .required(), .allow(''), .min(),
\* .max() (0: not declared), the format rule (.email(), .uuid(), .pattern(),
\* .valid(), .positive()) and .messages().
Key(key, type, required, allowEmpty, min, max, format, messages) ==
  [key |-> key, type |-> type, required |-> required, allowEmpty |-> allowEmpty,
   min |-> min, max |-> max, format |-> format, messages |-> messages]

registrationSchema ==
  <<Key("email", "string", TRUE, FALSE, 0, 0, "email",
        "string.email" :> "Please provide a valid email address"
          @@ "any.required" :> "Email is required"),
    Key("password", "string", TRUE, FALSE, 8, 0, "password",
        "string.min" :> "Password must be at least 8 characters long"
          @@ "string.pattern.base" :> "Password must contain at least one uppercase letter, one lowercase letter, one number, and one special character"
          @@ "any.required" :> "Password is required"),
    Key("firstName", "string", TRUE, FALSE, 2, 50, "",
        "string.min" :> "First name must be at least 2 characters long"
          @@ "string.max" :> "First name cannot exceed 50 characters"
          @@ "any.required" :> "First name is required"),
    Key("lastName", "string", TRUE, FALSE, 2, 50, "",
        "string.min" :> "Last name must be at least 2 characters long"
          @@ "string.max" :> "Last name cannot exceed 50 characters"
          @@ "any.required" :> "Last name is required"),
    Key("phone", "string", FALSE, TRUE, 0, 0, "phone",
        "string.pattern.base" :> "Please provide a valid phone number"),
    Key("carnivalGroupId", "string", TRUE, FALSE, 0, 0, "uuid",
        "string.guid" :> "Please select a valid carnival group"
          @@ "any.required" :> "Carnival group selection is required"),
    Key("address", "string", FALSE, TRUE, 0, 500, "",
        "string.max" :> "Address cannot exceed 500 characters"),
    Key("city", "string", FALSE, TRUE, 0, 100, "",
        "string.max" :> "City cannot exceed 100 characters"),
    Key("postalCode", "string", FALSE, TRUE, 0, 20, "",
        "string.max" :> "Postal code cannot exceed 20 characters")>>

loginSchema ==
  <<Key("email", "string", TRUE, FALSE, 0, 0, "email",
        "string.email" :> "Please provide a valid email address"
          @@ "any.required" :> "Email is required"),
    Key("password", "string", TRUE, FALSE, 0, 0, "",
        "any.required" :> "Password is required")>>

productSchema ==
  <<Key("title", "string", TRUE, FALSE, 5, 100, "",
        "string.min" :> "Product title must be at least 5 characters long"
          @@ "string.max" :> "Product title cannot exceed 100 characters"
          @@ "any.required" :> "Product title is required"),
    Key("description", "string", TRUE, FALSE, 20, 2000, "",
        "string.min" :> "Description must be at least 20 characters long"
          @@ "string.max" :> "Description cannot exceed 2000 characters"
          @@ "any.required" :> "Product description is required"),
    Key("price", "number", TRUE, FALSE, 0, 0, "positive",
        "number.positive" :> "Price must be a positive number"
          @@ "any.required" :> "Price is required"),
    Key("condition", "string", TRUE, FALSE, 0, 0, "condition",
        "any.only" :> "Please select a valid condition"
          @@ "any.required" :> "Condition is required"),
    Key("categoryId", "string", TRUE, FALSE, 0, 0, "uuid",
        "string.guid" :> "Please select a valid category"
          @@ "any.required" :> "Category selection is required"),
    Key("size", "string", FALSE, TRUE, 0, 50, "",
        "string.max" :> "Size cannot exceed 50 characters"),
    Key("color", "string", FALSE, TRUE, 0, 50, "",
        "string.max" :> "Color cannot exceed 50 characters"),
    Key("material", "string", FALSE, TRUE, 0, 100, "",
        "string.max" :> "Material cannot exceed 100 characters")>>

updateProductSchema ==
  <<Key("title", "string", FALSE, FALSE, 5, 100, "",
        "string.min" :> "Product title must be at least 5 characters long"
          @@ "string.max" :> "Product title cannot exceed 100 characters"),
    Key("description", "string", FALSE, FALSE, 20, 2000, "",
        "string.min" :> "Description must be at least 20 characters long"
          @@ "string.max" :> "Description cannot exceed 2000 characters"),
    Key("price", "number", FALSE, FALSE, 0, 0, "positive",
        "number.positive" :> "Price must be a positive number"),
    Key("condition", "string", FALSE, FALSE, 0, 0, "condition",
        "any.only" :> "Please select a valid condition"),
    Key("categoryId", "string", FALSE, FALSE, 0, 0, "uuid",
        "string.guid" :> "Please select a valid category"),
    Key("size", "string", FALSE, TRUE, 0, 50, "",
        "string.max" :> "Size cannot exceed 50 characters"),
    Key("color", "string", FALSE, TRUE, 0, 50, "",
        "string.max" :> "Color cannot exceed 50 characters"),
    Key("material", "string", FALSE, TRUE, 0, 100, "",
        "string.max" :> "Material cannot exceed 100 characters"),
    Key("isAvailable", "boolean", FALSE, FALSE, 0, 0, "", <<>>)>>

\* The keys a schema declares.
SchemaKeys(schema) == {schema[i].key : i \in 1 .. Len(schema)}

\* Math.round(value * 100) / 100, in hundredths: Joi's .precision(2) rounds
\* the value it validates (convert is on by default) and rejects nothing.
Round2(milli) == (milli + 5) \div 10

\* The rules a string value fails, in the order Joi applies them: the
\* allow-list of .valid(), the type, the empty string, then the rules in the
\* order they were declared.
StringViolations(f, v) ==
  IF f.allowEmpty /\ v.t = "string" /\ v.len = 0 THEN <<>>
  ELSE IF f.format = "condition" /\ v.t = "string" /\ v.shape \in Conditions THEN <<>>
  ELSE LET only == IF f.format = "condition" THEN <<"any.only">> ELSE <<>>
       IN IF v.t # "string" THEN only \o <<"string.base">>
          ELSE IF v.len = 0 THEN only \o <<"string.empty">>
          ELSE only
               \o (IF f.min > 0 /\ v.len < f.min THEN <<"string.min">> ELSE <<>>)
               \o (IF f.max > 0 /\ v.len > f.max THEN <<"string.max">> ELSE <<>>)
               \o (IF f.format = "email" /\ v.shape # "email" THEN <<"string.email">>
                   ELSE IF f.format = "uuid" /\ v.shape # "uuid" THEN <<"string.guid">>
                   ELSE IF f.format = "phone" /\ v.shape # "phone"
                   THEN <<"string.pattern.base">>
                   ELSE IF f.format = "password" /\ v.shape # "password"
                   THEN <<"string.pattern.base">>
                   ELSE <<>>)

\* A numeral is converted to its number; the value is rounded to two places
\* and then tested by .positive().
NumberViolations(f, v) ==
  IF ~(v.t = "number" \/ (v.t = "string" /\ v.shape = "numeral")) THEN <<"number.base">>
  ELSE IF f.format = "positive" /\ Round2(v.n) <= 0 THEN <<"number.positive">>
  ELSE <<>>

BooleanViolations(f, v) ==
  IF v.t = "boolean" \/ (v.t = "string" /\ v.shape \in {"true", "false"}) THEN <<>>
  ELSE <<"boolean.base">>

\* The error codes Joi reports for one key of the schema.
KeyViolations(f, body) ==
  IF f.key \notin DOMAIN body
  THEN IF f.required THEN <<"any.required">> ELSE <<>>
  ELSE IF f.type = "string" THEN StringViolations(f, body[f.key])
  ELSE IF f.type = "number" THEN NumberViolations(f, body[f.key])
  ELSE BooleanViolations(f, body[f.key])

\* The keys a body may carry that some schema does not declare, in the order
\* the bodies list them.
ExtraKeys == <<"isAvailable", "sellerId", "role">>

RECURSIVE UnknownFrom(_, _, _)
UnknownFrom(schema, body, i) ==
  IF i > Len(ExtraKeys) THEN <<>>
  ELSE (IF ExtraKeys[i] \in DOMAIN body /\ ExtraKeys[i] \notin SchemaKeys(schema)
        THEN <<[key |-> ExtraKeys[i], code |-> "object.unknown"]>>
        ELSE <<>>)
       \o UnknownFrom(schema, body, i + 1)

RECURSIVE ViolationsFrom(_, _, _)
ViolationsFrom(schema, body, i) ==
  IF i > Len(schema) THEN UnknownFrom(schema, body, 1)
  ELSE [j \in 1 .. Len(KeyViolations(schema[i], body)) |->
          [key |-> schema[i].key, code |-> KeyViolations(schema[i], body)[j]]]
       \o ViolationsFrom(schema, body, i + 1)

\* error.details of schema.validate(body, { abortEarly: false }): every
\* failed rule of every declared key, in the order of the schema, then the
\* keys the schema does not declare.
Violations(schema, body) == ViolationsFrom(schema, body, 1)

\* detail.message: the text given in .messages() for the code, or Joi's own
\* text, which names the key.
DefaultText(code) ==
  IF code = "string.base" THEN "must be a string"
  ELSE IF code = "string.empty" THEN "is not allowed to be empty"
  ELSE IF code = "number.base" THEN "must be a number"
  ELSE IF code = "boolean.base" THEN "must be a boolean"
  ELSE IF code = "object.unknown" THEN "is not allowed"
  ELSE code

Declared(schema, key) == {i \in 1 .. Len(schema) : schema[i].key = key}

Message(schema, d) ==
  IF \E i \in Declared(schema, d.key) : d.code \in DOMAIN schema[i].messages
  THEN LET i == CHOOSE x \in Declared(schema, d.key) : TRUE
       IN [label |-> "", text |-> schema[i].messages[d.code]]
  ELSE [label |-> d.key, text |-> DefaultText(d.code)]

\* The list as it would be with abortEarly left at its default: the first
\* failure only.
FailuresFirstOnly(schema, body) ==
  LET ds == Violations(schema, body)
  IN [i \in 1 .. (IF ds = <<>> THEN 0 ELSE 1) |->
        [field |-> ds[i].key, message |-> Message(schema, ds[i])]]

\* error.details.map(detail => ({ field: detail.path[0], message: detail.message }))
Failures(schema, body) ==
  LET ds == Violations(schema, body)
  IN [i \in 1 .. Len(ds) |-> [field |-> ds[i].key, message |-> Message(schema, ds[i])]]

\* One validation middleware: 400 with the list when validate() reports an
\* error, next() otherwise; req.body is not assigned.
Validate(r, kind, schema, body) ==
  /\ req[r].pc = "idle"
  /\ LET q == Arrive(kind, body, NoToken)
         errors == Failures(schema, body)
     IN IF errors # <<>>
        THEN Respond(r, [q EXCEPT !.details = errors], 400, "Validation failed")
        ELSE req' = [req EXCEPT ![r] = [q EXCEPT !.pc = "next"]]
  /\ UNCHANGED <<groups, users, categories, products, issued, now, mode, seed, proc>>

validateRegistration(r, body) == Validate(r, "validateRegistration", registrationSchema, body)

validateLogin(r, body) == Validate(r, "validateLogin", loginSchema, body)

validateProduct(r, body) == Validate(r, "validateProduct", productSchema, body)

validateProductUpdate(r, body) ==
  Validate(r, "validateProductUpdate", updateProductSchema, body)

\* next(): the request goes on to the handler behind the middleware.
NextHandler(r) ==
  /\ req[r].pc = "next"
  /\ req' = [req EXCEPT ![r] = IdleReq]
  /\ UNCHANGED <<groups, users, categories, products, issued, now, mode, seed, proc>>

\* The bodies sent to the middleware.
RegistrationInputs ==
  {Body(rec) : rec \in
     [email : {Absent, Str(7, "email"), Str(5, "text"), Str(0, "")},
      password : {Absent, Str(11, "password"), Str(3, "text"), Str(12, "text"),
                  Str(4, "password")},
      firstName : {Absent, Str(3, "text"), Str(1, "text"), Str(51, "text")},
      lastName : {Absent, Str(7, "text")},
      phone : {Absent, Str(0, ""), Str(10, "phone"), Str(5, "text")},
      carnivalGroupId : {Absent, Str(36, "uuid"), Str(3, "text")},
      role : {Absent, Str(5, "text")}]}

LoginInputs ==
  {Body(rec) : rec \in
     [email : {Absent, Str(7, "email"), Str(5, "text"), Str(0, "")},
      password : {Absent, Str(0, ""), Str(11, "password"), Num(12345000)}]}

ProductInputs ==
  {Body(rec) : rec \in
     [title : {Absent, Str(3, "text"), Str(12, "text"), Str(101, "text")},
      description : {Absent, Str(40, "text"), Str(5, "text")},
      price : {Absent, Num(12500), Num(-1000), Num(4), Num(1234), Numeral(4, 9990),
               Str(4, "text")},
      condition : {Absent, Str(4, "good"), Str(6, "broken"), Num(1000)},
      categoryId : {Absent, Str(36, "uuid"), Str(1, "text")},
      size : {Absent, Str(0, ""), Str(51, "text")},
      isAvailable : {Absent, Bool(FALSE), Str(3, "yes")},
      sellerId : {Absent, Str(36, "uuid")}]}

(***************************************************************************)
(* The server process (server.js): startup, the rate limiter, the health   *)
(* check and the termination signals.                                      *)
(***************************************************************************)
\* max: the requests one source address may make to /api/ in one window
RateMax == 100

Signals == {"SIGTERM", "SIGINT"}

\* phase: where startServer() is ("authenticate", "sync", "serving" once
\* app.listen was called, "exited" after process.exit).  exit: the call that
\* ended the process.  closing: the signals whose handler awaits
\* sequelize.close().  closed: a close() has completed.  hits: the requests
\* the limiter counted for the source address in the current window.  History
\* kept for the properties: order (the startup steps completed, in order) and
\* failed (the startup call that threw).
BootProc ==
  [phase |-> "authenticate", exit |-> "", closing |-> {}, closed |-> FALSE, hits |-> 0,
   order |-> <<>>, failed |-> ""]

\* The process as the request handlers see it: started and listening.
ServingProc ==
  [BootProc EXCEPT !.phase = "serving", !.order = <<"authenticate", "sync", "listen">>]

\* process.exit(code)
Exit(p, code) == [p EXCEPT !.phase = "exited", !.exit = code]

\* await sequelize.authenticate(); catch: process.exit(1)
StartAuthenticate(out) ==
  /\ proc.phase = "authenticate"
  /\ proc' = IF out # "ok" THEN Exit([proc EXCEPT !.failed = "authenticate"], "exit(1)")
             ELSE [proc EXCEPT !.phase = "sync", !.order = Append(@, "authenticate")]
  /\ UNCHANGED <<groups, users, categories, products, issued, now, req, mode, seed>>

\* The second startup step as it would be with app.listen outside the try.
StartSyncThenListenAnyway(out) ==
  /\ proc.phase = "sync"
  /\ proc' = IF out # "ok"
             THEN [proc EXCEPT !.phase = "serving", !.failed = "sync",
                               !.order = Append(@, "listen")]
             ELSE [proc EXCEPT !.phase = "serving",
                               !.order = Append(Append(@, "sync"), "listen")]
  /\ UNCHANGED <<groups, users, categories, products, issued, now, req, mode, seed>>

\* await sequelize.sync({ alter: true }); app.listen(PORT); catch: process.exit(1)
StartSync(out) ==
  /\ proc.phase = "sync"
  /\ proc' = IF out # "ok" THEN Exit([proc EXCEPT !.failed = "sync"], "exit(1)")
             ELSE [proc EXCEPT !.phase = "serving",
                               !.order = Append(Append(@, "sync"), "listen")]
  /\ UNCHANGED <<groups, users, categories, products, issued, now, req, mode, seed>>

\* process.on(sig, ...): the handler starts and awaits sequelize.close()
Signal(sig) ==
  /\ proc.phase # "exited"
  /\ sig \notin proc.closing
  /\ proc' = [proc EXCEPT !.closing = @ \cup {sig}]
  /\ UNCHANGED <<groups, users, categories, products, issued, now, req, mode, seed>>

\* sequelize.close() has resolved: process.exit(0)
CloseDone(sig) ==
  /\ proc.phase # "exited"
  /\ sig \in proc.closing
  /\ proc' = Exit([proc EXCEPT !.closed = TRUE], "exit(0)")
  /\ UNCHANGED <<groups, users, categories, products, issued, now, req, mode, seed>>

\* The limiter: every request to /api/ is counted, and refused once the count
\* of the window exceeds max.
Limited(hits) == hits > RateMax

\* res.status(200).json({ status, message, timestamp })
HealthBody(t) ==
  [status |-> "OK", message |-> "Carnival Marketplace API is running", timestamp |-> t]

\* GET /api/health: the limiter, then (no route of the mounted routers
\* matching) the health-check handler.
Health(r) ==
  /\ proc.phase = "serving"
  /\ req[r].pc = "idle"
  /\ proc.hits < RateMax + MaxExcess
  /\ proc' = [proc EXCEPT !.hits = @ + 1]
  /\ LET q == Arrive("health", NoBody, NoToken)
     IN IF Limited(proc.hits + 1)
        THEN Respond(r, q, 429, "Too many requests from this IP, please try again later.")
        ELSE RespondOk(r, q, 200, NoToken, HealthBody(now))
  /\ UNCHANGED <<groups, users, categories, products, issued, now, mode, seed>>

\* windowMs has elapsed: the limiter starts a new window.
LimiterReset ==
  /\ proc.phase # "exited"
  /\ proc.hits > 0
  /\ proc' = [proc EXCEPT !.hits = 0]
  /\ UNCHANGED <<groups, users, categories, products, issued, now, req, mode, seed>>

(***************************************************************************)
(* Specifications.                                                         *)
(***************************************************************************)
Init ==
  /\ groups = {}
  /\ users = {}
  /\ categories = {}
  /\ products = {}
  /\ issued = {}
  /\ now = 0
  /\ req = [r \in Slots |-> IdleReq]
  /\ mode = "development"
  /\ seed = IdleSeed
  /\ proc = ServingProc

\* One request at a time, every route, on a database that starts empty.
Next ==
  \/ \E body \in RegisterBodies : \E out \in DbOutcomes : RegisterStart(1, body, out)
  \/ \E out \in DbOutcomes : RegisterGroup(1, out)
  \/ \E out \in DbOutcomes : RegisterNewGroup(1, out)
  \/ \E out \in DbOutcomes : RegisterFallback(1, out)
  \/ \E out \in DbOutcomes : RegisterCreate(1, out)
  \/ \E out \in DbOutcomes : RegisterFetch(1, out)
  \/ \E body \in LoginBodies : \E out \in DbOutcomes : LoginStart(1, body, out)
  \/ \E out \in DbOutcomes : LoginUpdate(1, out)
  \/ \E auth \in AuthHeaders : \E out \in DbOutcomes : Me(1, auth, out)
  \/ /\ Cardinality(products) < MaxProducts
     /\ \/ \E body \in ProductBodies : \E auth \in issued : \E out \in DbOutcomes :
             ProductStart(1, body, auth, out)
        \/ \E auth \in AuthHeaders \ issued : \E out \in DbOutcomes :
             ProductStart(1, BaseProductBody, auth, out)
  \/ \E out \in DbOutcomes : ProductCreate(1, out)
  \/ \E out \in DbOutcomes : ProductFetch(1, out)
  \/ Finish(1)
  \/ \E id \in 1 .. MaxUserRows : Deactivate(id)
  \/ \E data \in seedGroupsData : SeedGroup(data)
  \/ \E data \in seedCategoriesData : SeedCategory(data)

Spec == Init /\ [][Next]_vars

\* Two connections served concurrently: registrations and product creations
\* interleave at every awaited data-layer call.
RaceRegisterBodies ==
  [email : {EmailA}, password : {"Str0ng!Pass"}, firstName : {"Jan"},
   lastName : {"Peeters"}, carnivalGroupId : {NULL, 1, 2}]

RaceProductBodies == {[BaseProductBody EXCEPT !.categoryId = c] : c \in {1, 2}}

NextRace ==
  \/ \E r \in Slots : \E body \in RaceRegisterBodies : \E out \in DbOutcomes : RegisterStart(r, body, out)
  \/ \E r \in Slots : \E out \in DbOutcomes : RegisterGroup(r, out)
  \/ \E r \in Slots : \E out \in DbOutcomes : RegisterNewGroup(r, out)
  \/ \E r \in Slots : \E out \in DbOutcomes : RegisterFallback(r, out)
  \/ \E r \in Slots : \E out \in DbOutcomes : RegisterCreate(r, out)
  \/ \E r \in Slots : \E out \in DbOutcomes : RegisterFetch(r, out)
  \/ /\ Cardinality(products) < MaxProducts
     /\ \E r \in Slots : \E body \in RaceProductBodies : \E auth \in issued :
          \E out \in DbOutcomes : ProductStart(r, body, auth, out)
  \/ \E r \in Slots : \E out \in DbOutcomes : ProductCreate(r, out)
  \/ \E r \in Slots : \E out \in DbOutcomes : ProductFetch(r, out)
  \/ \E r \in Slots : Finish(r)
  \/ \E data \in seedGroupsData : SeedGroup(data)
  \/ \E data \in seedCategoriesData : SeedCategory(data)

SpecRace == Init /\ [][NextRace]_vars

\* One request at a time while the clock runs, on a seeded database in which
\* one user registered long ago: tokens are issued, presented, and expire.
\* The unit of the clock is the day; a request is served within its day.
InitClock ==
  /\ groups = {[id |-> 1, name |-> "Antwerp Devils", city |-> "Antwerp",
                country |-> "Belgium", verified |-> TRUE]}
  /\ users = {NewUserRow(1, [email |-> EmailC, password |-> "Str0ng!Pass",
                             firstName |-> "Jan", lastName |-> "Peeters"], 1)}
  /\ categories = {[id |-> 1, name |-> "Costumes", slug |-> "costumes"]}
  /\ products = {}
  /\ issued = {}
  /\ now = 0
  /\ req = [r \in Slots |-> IdleReq]
  /\ mode = "development"
  /\ seed = IdleSeed
  /\ proc = ServingProc

ClockRegisterBodies ==
  [email : {EmailA}, password : {"Str0ng!Pass"}, firstName : {"Jan"},
   lastName : {"Peeters"}, carnivalGroupId : {NULL}]

ClockLoginBodies == [email : Emails, password : Passwords]

ClockProductBodies ==
  {BaseProductBody, [BaseProductBody EXCEPT !.sellerId = 1, !.isAvailable = FALSE]}

NextClock ==
  \/ /\ Cardinality(issued) < MaxTokens
     /\ \E body \in ClockRegisterBodies : RegisterStart(1, body, "ok")
  \/ RegisterGroup(1, "ok")
  \/ RegisterCreate(1, "ok")
  \/ RegisterFetch(1, "ok")
  \/ /\ Cardinality(issued) < MaxTokens
     /\ \E body \in ClockLoginBodies : LoginStart(1, body, "ok")
  \/ LoginUpdate(1, "ok")
  \/ \E auth \in AuthHeaders : Me(1, auth, "ok")
  \/ /\ Cardinality(products) < MaxProducts
     /\ \E body \in ClockProductBodies : \E auth \in AuthHeaders :
          ProductStart(1, body, auth, "ok")
  \/ ProductCreate(1, "ok")
  \/ ProductFetch(1, "ok")
  \/ Finish(1)
  \/ \E id \in 1 .. MaxUserRows : Deactivate(id)
  \/ req[1].pc = "idle" /\ Tick

SpecClock == InitClock /\ [][NextClock]_vars

\* The read routes and product creation on a seeded database with one
\* registered user who holds a token, in either mode, some calls failing.
InitBrowse ==
  /\ groups = {[id |-> 1, name |-> "Antwerp Devils", city |-> "Antwerp",
                country |-> "Belgium", verified |-> TRUE]}
  /\ users = {NewUserRow(1, [email |-> EmailC, password |-> "Str0ng!Pass",
                             firstName |-> "Jan", lastName |-> "Peeters"], 1)}
  /\ categories = {[id |-> 1, name |-> "Costumes", slug |-> "costumes"]}
  /\ products = {}
  /\ issued = {generateToken(1, 0)}
  /\ now = 0
  /\ req = [r \in Slots |-> IdleReq]
  /\ mode \in Modes
  /\ seed = IdleSeed
  /\ proc = ServingProc

\* The id parameters of the get-by-id routes.
IdParams == {MALFORMED} \cup (1 .. (MaxListed + 1))

NextBrowse ==
  \/ /\ Cardinality(products) < MaxListed
     /\ \E auth \in issued : \E out \in DbOutcomes :
          ProductStart(1, BaseProductBody, auth, out)
  \/ \E out \in DbOutcomes : ProductCreate(1, out)
  \/ \E out \in DbOutcomes : ProductFetch(1, out)
  \/ \E id \in 1 .. MaxListed : Withdraw(id)
  \/ \E out \in DbOutcomes : ListProducts(1, out)
  \/ \E id \in IdParams : \E out \in DbOutcomes : GetProduct(1, id, out)
  \/ \E id \in IdParams : \E out \in DbOutcomes : GetGroup(1, id, out)
  \/ \E out \in DbOutcomes : ListGroups(1, out)
  \/ \E out \in DbOutcomes : ListCategories(1, out)
  \/ \E body \in ClockRegisterBodies : RegisterStart(1, body, "SequelizeConnectionError")
  \/ \E body \in ClockLoginBodies : LoginStart(1, body, "SequelizeConnectionError")
  \/ ErrorMiddleware(1, "SyntaxError")
  \/ Finish(1)
  \/ now < MaxDays /\ Tick

SpecBrowse == InitBrowse /\ [][NextBrowse]_vars

\* Logins against a seeded database with two registered users, from day 1 on.
InitLogin ==
  /\ groups = {[id |-> 1, name |-> "Antwerp Devils", city |-> "Antwerp",
                country |-> "Belgium", verified |-> TRUE]}
  /\ users = {NewUserRow(1, [email |-> EmailC, password |-> "Str0ng!Pass",
                             firstName |-> "Jan", lastName |-> "Peeters"], 1),
              NewUserRow(2, [email |-> EmailA, password |-> "0ther!Pass",
                             firstName |-> "An", lastName |-> "Maes"], 1)}
  /\ categories = {[id |-> 1, name |-> "Costumes", slug |-> "costumes"]}
  /\ products = {}
  /\ issued = {}
  /\ now = 1
  /\ req = [r \in Slots |-> IdleReq]
  /\ mode = "development"
  /\ seed = IdleSeed
  /\ proc = ServingProc

NextLogin ==
  \/ /\ Cardinality(issued) < MaxTokens
     /\ \E body \in LoginBodies : \E out \in DbOutcomes : LoginStart(1, body, out)
  \/ \E out \in DbOutcomes : LoginUpdate(1, out)
  \/ Finish(1)
  \/ \E id \in 1 .. MaxUserRows : Deactivate(id)
  \/ now < MaxDays /\ Tick

SpecLogin == InitLogin /\ [][NextLogin]_vars

\* The seeding script run repeatedly against a database that starts empty.
NextSeed ==
  \/ SeedStart
  \/ \E out \in DbOutcomes : SeedAuthenticate(out)
  \/ \E out \in DbOutcomes : SeedSync(out)
  \/ \E out \in DbOutcomes : SeedGroupsLoop(out)
  \/ \E out \in DbOutcomes : SeedCategoriesLoop(out)

SpecSeed == Init /\ [][NextSeed]_vars

\* The server process from its start: startup, signals, and health checks
\* from one source address once it listens.
InitServer ==
  /\ groups = {}
  /\ users = {}
  /\ categories = {}
  /\ products = {}
  /\ issued = {}
  /\ now = 0
  /\ req = [r \in Slots |-> IdleReq]
  /\ mode = "production"
  /\ seed = IdleSeed
  /\ proc = BootProc

NextServer ==
  \/ \E out \in DbOutcomes : StartAuthenticate(out)
  \/ \E out \in DbOutcomes : StartSync(out)
  \/ \E sig \in Signals : Signal(sig)
  \/ \E sig \in Signals : CloseDone(sig)
  \/ Health(1)
  \/ proc.phase # "exited" /\ Finish(1)
  \/ LimiterReset

SpecServer == InitServer /\ [][NextServer]_vars

\* The four validation middlewares applied to bodies of every shape.
NextValidate ==
  \/ req[1].pc = "idle" /\ \E body \in RegistrationInputs : validateRegistration(1, body)
  \/ req[1].pc = "idle" /\ \E body \in LoginInputs : validateLogin(1, body)
  \/ req[1].pc = "idle" /\ \E body \in ProductInputs : validateProduct(1, body)
  \/ req[1].pc = "idle" /\ \E body \in ProductInputs : validateProductUpdate(1, body)
  \/ NextHandler(1)
  \/ Finish(1)

SpecValidate == Init /\ [][NextValidate]_vars

(***************************************************************************)
(* Properties.                                                             *)
(***************************************************************************)
Done(r, kind) == req[r].pc = "done" /\ req[r].kind = kind

ConnectionLost(q) == q.thrown = "SequelizeConnectionError"

\* The request's INSERT INTO users reached the database.
ReachedInsert(q) ==
  \/ q.made # NULL
  \/ /\ q.at = "reg_create"
     /\ q.thrown \in {"SequelizeUniqueConstraintError", "SequelizeForeignKeyConstraintError",
                      "SequelizeDatabaseError"}

\* C1: no two User rows share an email; a register request that finds a row
\* with its email is answered 400 and inserts nothing; and of two register
\* requests for the same email that both passed the existence check and both
\* reached the INSERT, exactly one inserted a row and the other is answered
\* 400.
C1_OneUserPerEmail ==
  /\ \A u1, u2 \in users : u1.email = u2.email => u1 = u2
  /\ \A r \in Slots :
       Done(r, "register") /\ req[r].existingUser # NULL
         => req[r].status = 400 /\ req[r].made = NULL
  /\ \A r1, r2 \in Slots :
       /\ r1 # r2
       /\ Done(r1, "register") /\ Done(r2, "register")
       /\ req[r1].body.email = req[r2].body.email
       /\ ReachedInsert(req[r1]) /\ ReachedInsert(req[r2])
       => \E w \in {r1, r2} : \E l \in {r1, r2} \ {w} :
            /\ req[w].made # NULL
            /\ req[l].made = NULL
            /\ req[l].status = 400

\* Two interleaved registrations for one email: one inserted the row, the
\* other lost on the unique index and was answered 400.
C1_Witness ==
  \E r1, r2 \in Slots :
    /\ r1 # r2
    /\ Done(r1, "register") /\ Done(r2, "register")
    /\ req[r1].body.email = req[r2].body.email
    /\ req[r1].made # NULL
    /\ req[r2].at = "reg_create"
    /\ req[r2].thrown = "SequelizeUniqueConstraintError"
    /\ req[r2].status = 400

\* C8: every User's carnivalGroupId names an existing CarnivalGroup, every
\* Product's sellerId an existing User and its categoryId an existing
\* Category; a request refused by a foreign key has inserted nothing.
C8_ReferencesResolve ==
  /\ \A u \in users : u.carnivalGroupId \in Ids(groups)
  /\ \A p \in products : p.sellerId \in Ids(users) /\ p.categoryId \in Ids(categories)
  /\ \A r \in Slots :
       req[r].thrown = "SequelizeForeignKeyConstraintError" => req[r].made = NULL

\* A product was stored while another product request, naming a category
\* that does not exist, was refused by the foreign key.
C8_Witness ==
  /\ users # {}
  /\ products # {}
  /\ \E r \in Slots :
       /\ Done(r, "product")
       /\ req[r].body.categoryId \notin Ids(categories)
       /\ req[r].thrown = "SequelizeForeignKeyConstraintError"

\* C9: when two registrations both find no group and both try to create
\* 'Default Group', at most one such row results, and the request whose
\* creation fails on the unique name inserts no User and is answered 500.
C9_DefaultGroupConflictIs500 ==
  /\ Cardinality({g \in groups : g.name = "Default Group"}) <= 1
  /\ \A r \in Slots :
       /\ Done(r, "register")
       /\ req[r].at = "reg_newgroup"
       /\ req[r].thrown = "SequelizeUniqueConstraintError"
       => req[r].made = NULL /\ req[r].status = 500

\* The four required fields of a registration are present.
RequiredPresent(body) ==
  body.email # NoEmail /\ body.password # "" /\ body.firstName # "" /\ body.lastName # ""

\* C6: a registration with the four required fields and no carnivalGroupId,
\* arriving at a database with no rows, creates exactly one CarnivalGroup,
\* 'Default Group' (Brussels, Belgium, verified), and exactly one User linked
\* to it, and is answered 201 with a token whose userId is the new user's id.
C6_FirstRegistration ==
  \A r \in Slots :
    LET q == req[r] IN
    /\ Done(r, "register")
    /\ q.emptyDb
    /\ RequiredPresent(q.body) /\ IsEmail(q.body.email)
    /\ q.body.carnivalGroupId = NULL
    /\ ~ConnectionLost(q)
    /\ \A g \in groups : g.name = "Default Group"
    => /\ q.status = 201
       /\ q.madeGroup # NULL
       /\ groups = {[id |-> q.madeGroup, name |-> "Default Group", city |-> "Brussels",
                     country |-> "Belgium", verified |-> TRUE]}
       /\ \E u \in users :
            /\ users = {u}
            /\ u.id = q.made
            /\ u.email = q.body.email
            /\ u.carnivalGroupId = q.madeGroup
            /\ q.token.form = "jwt"
            /\ q.token.userId = u.id
            /\ q.token \in issued

\* The first registration on the empty database has been answered 201.
C6_Witness ==
  \E r \in Slots :
    /\ Done(r, "register")
    /\ req[r].emptyDb
    /\ req[r].body.carnivalGroupId = NULL
    /\ req[r].status = 201
    /\ req[r].madeGroup # NULL
    /\ Cardinality(groups) = 1
    /\ Cardinality(users) = 1

\* C7: a registration with the four required fields and an unused email is
\* answered 201, with the user linked to an existing group, whether no
\* carnivalGroupId is supplied or the supplied one names no group, in every
\* database state.
C7_FallbackAlwaysRegisters ==
  \A r \in Slots :
    LET q == req[r] IN
    /\ Done(r, "register")
    /\ RequiredPresent(q.body) /\ IsEmail(q.body.email)
    /\ q.existingUser = NULL
    /\ q.body.carnivalGroupId # MALFORMED
    /\ ~ConnectionLost(q)
    => /\ q.status = 201
       /\ \E u \in users : u.id = q.made /\ u.carnivalGroupId \in Ids(groups)

\* C2: a login with the email of a stored user and a password that is not
\* that user's is answered 401 'Invalid email or password', as is a login
\* with an email that has no User row.
C2_WrongPasswordIsGeneric ==
  \A r \in Slots :
    LET q == req[r] IN
    /\ Done(r, "login")
    /\ q.body.email # NoEmail /\ q.body.password # ""
    /\ ~ConnectionLost(q)
    /\ \/ q.userId = NULL
       \/ \E u \in users : u.id = q.userId /\ ~Compare(q.body.password, u.password)
    => q.status = 401 /\ q.error = "Invalid email or password"

\* The token's seven days have elapsed at clock time t.
Elapsed(tok, t) == t >= tok.iat + TokenTTL

\* C3: a token issued by register or login carries the id of the user it was
\* issued to, and while its seven days have not elapsed GET /api/auth/me
\* answers 200 with that user and the authentication step of POST
\* /api/products lets the request through as that user.
C3_UnexpiredTokenAccepted ==
  /\ \A r \in Slots :
       LET q == req[r] IN
       (Done(r, "register") /\ q.status = 201) \/ (Done(r, "login") /\ q.status = 200)
         => q.token \in issued /\ q.token.userId = q.user.id /\ q.user.id = q.userId
  /\ \A r \in Slots :
       LET q == req[r] IN
       /\ q.kind \in {"me", "product"}
       /\ q.token \in issued
       /\ ~Elapsed(q.token, q.time)
       /\ q.token.userId \in Ids(users)
       /\ ~ConnectionLost(q)
       => /\ q.kind = "me" => q.status = 200 /\ q.user.id = q.token.userId
          /\ q.kind = "product" => q.status # 401 /\ q.userId = q.token.userId

\* A token presented on the last day of its validity was accepted, with
\* another user in the table.
C3_Witness ==
  \E r \in Slots :
    /\ Done(r, "me")
    /\ req[r].status = 200
    /\ req[r].token \in issued
    /\ req[r].time = req[r].token.iat + TokenTTL - 1
    /\ \E u \in users : u.id # req[r].token.userId

\* C4: once a token's seven days have elapsed, every token-verifying handler
\* answers 401 'Token expired'.
C4_ExpiryReported ==
  \A r \in Slots :
    LET q == req[r] IN
    /\ q.kind \in {"me", "product"}
    /\ q.pc = "done"
    /\ q.token \in issued
    /\ Elapsed(q.token, q.time)
    => q.status = 401 /\ q.error = "Token expired"

\* C5: the Product row a request inserts has the token's user as seller and
\* is available, whatever the body says; a request whose token is missing,
\* malformed, wrongly signed or expired is answered 401 and inserts nothing.
C5_SellerIsCaller ==
  /\ \A r \in Slots :
       LET q == req[r] IN
       q.kind = "product" /\ q.made # NULL
         => /\ q.token \in issued
            /\ ~Elapsed(q.token, q.time)
            /\ \E p \in products :
                 p.id = q.made /\ p.sellerId = q.token.userId /\ p.isAvailable
  /\ \A r \in Slots :
       LET q == req[r] IN
       /\ q.kind = "product"
       /\ \/ q.token.form # "jwt"
          \/ q.token.key # Secret
          \/ Elapsed(q.token, q.time)
       => q.pc = "done" /\ q.status = 401 /\ q.made = NULL

\* A product was created for the token's user by a request whose body named
\* another seller and isAvailable false.
C5_Witness ==
  \E r \in Slots :
    /\ Done(r, "product")
    /\ req[r].status = 201
    /\ req[r].body.sellerId # NULL
    /\ req[r].body.sellerId # req[r].token.userId
    /\ ~req[r].body.isAvailable
    /\ \E p \in products : p.id = req[r].made /\ p.sellerId = req[r].token.userId

\* The user with this id is deactivated.
Deactivated(id) == \E u \in users : u.id = id /\ ~u.isActive

\* C10: a login for a deactivated user is answered 401 and issues no token;
\* an unexpired token of a deactivated user is still accepted: GET
\* /api/auth/me answers 200 with that user, and POST /api/products passes
\* authentication and inserts a product with that user as seller.
C10_DeactivatedKeepsToken ==
  [][\A r \in Slots :
       LET q == req'[r] IN
       /\ /\ req[r].pc = "idle" /\ q.kind = "login"
          /\ \E u \in users : u.email = q.body.email /\ ~u.isActive
          => q.pc = "done" /\ q.status = 401 /\ issued' = issued
       /\ /\ req[r].pc = "idle" /\ q.kind \in {"me", "product"}
          /\ q.token \in issued /\ ~Elapsed(q.token, now)
          /\ Deactivated(q.token.userId)
          => /\ q.kind = "me" => q.status = 200 /\ q.user.id = q.token.userId
             /\ q.kind = "product" => q.pc = "prod_create" /\ q.userId = q.token.userId
       /\ /\ req[r].pc = "prod_create" /\ q.pc # "prod_create"
          /\ Deactivated(req[r].userId)
          => /\ q.made # NULL
             /\ \E p \in products' : p.id = q.made /\ p.sellerId = req[r].token.userId
     ]_vars

\* GET /api/auth/me answered 200 to the token of a user who was deactivated
\* when the request was served.
C10_Witness ==
  \E r \in Slots :
    /\ Done(r, "me")
    /\ req[r].status = 200
    /\ req[r].token \in issued
    /\ ~req[r].user.isActive

\* The invocation that returned this value met no connectivity failure.
Undisturbed(report) == report.success /\ ~report.lost

\* Every record of the two lists was reported as created / as skipped.
AllCreated(report) ==
  /\ report.failed = 0
  /\ report.carnivalGroups = [created |-> Len(carnivalGroupsData), skipped |-> 0]
  /\ report.categories = [created |-> Len(categoriesData), skipped |-> 0]

AllSkipped(report) ==
  /\ report.failed = 0
  /\ report.carnivalGroups = [created |-> 0, skipped |-> Len(carnivalGroupsData)]
  /\ report.categories = [created |-> 0, skipped |-> Len(categoriesData)]

\* C14: seeding never leaves two rows for one (name, city) record or one
\* slug; the first invocation on the empty database, if the connection
\* holds, reports every record as created and leaves one row per record; an
\* invocation that follows one in which every record was created or found
\* reports, if the connection holds, every record as already existing
\* (created 0, skipped = number of records) and adds no row.
C14_SeedingIdempotent ==
  /\ \A i \in 1 .. Len(carnivalGroupsData) :
       Cardinality({g \in groups : /\ g.name = carnivalGroupsData[i].name
                                    /\ g.city = carnivalGroupsData[i].city}) <= 1
  /\ \A i \in 1 .. Len(categoriesData) :
       Cardinality({c \in categories : c.slug = categoriesData[i].slug}) <= 1
  /\ (seed.pc = "idle" /\ seed.run = 1 /\ Undisturbed(seed.last))
       => /\ AllCreated(seed.last)
          /\ Cardinality(groups) = Len(carnivalGroupsData)
          /\ Cardinality(categories) = Len(categoriesData)
  /\ (/\ seed.pc = "idle" /\ seed.run >= 2
      /\ Undisturbed(seed.prev) /\ seed.prev.failed = 0
      /\ Undisturbed(seed.last))
       => /\ AllSkipped(seed.last)
          /\ Cardinality(groups) = Len(carnivalGroupsData)
          /\ Cardinality(categories) = Len(categoriesData)

\* Two invocations in sequence: the first created every record, the second
\* found every record.
C14_Witness ==
  /\ seed.pc = "idle"
  /\ seed.run = 2
  /\ AllCreated(seed.prev) /\ seed.prev.success
  /\ AllSkipped(seed.last) /\ seed.last.success
  /\ Cardinality(groups) = Len(carnivalGroupsData)
  /\ Cardinality(categories) = Len(categoriesData)

\* C11: a step of a login request that does not answer 200 issues no token
\* and changes no row; the step that answers 200 changes exactly the
\* lastLoginAt of the user who logged in, to the current time, issues exactly
\* the token of the response, for that user and not dated before the stored
\* lastLoginAt, and changes nothing else.
C11_LoginFrame ==
  [][\A r \in Slots :
       LET q == req'[r] IN
       req'[r] # req[r] /\ q.kind = "login"
         => /\ groups' = groups /\ categories' = categories /\ products' = products
            /\ ~(q.pc = "done" /\ q.status = 200) => users' = users /\ issued' = issued
            /\ (q.pc = "done" /\ q.status = 200)
                 => \E u \in users :
                      /\ u.id = q.userId
                      /\ users' = (users \ {u}) \cup {[u EXCEPT !.lastLoginAt = now]}
                      /\ issued' = issued \cup {q.token}
                      /\ q.token.userId = u.id
                      /\ q.token.iat = now
                      /\ q.user.lastLoginAt = now
    ]_vars

\* A login was answered 200 and the stored lastLoginAt of that user is the
\* day of the token, while the other user has never logged in.
C11_Witness ==
  \E r \in Slots :
    /\ Done(r, "login")
    /\ req[r].status = 200
    /\ \E u \in users :
         /\ u.id = req[r].userId
         /\ u.lastLoginAt # NULL
         /\ u.lastLoginAt = req[r].token.iat
    /\ \E u \in users : u.id # req[r].userId /\ u.lastLoginAt = NULL

\* C13: the step that answers GET /api/products with 200 lists each Product
\* row that is available at that moment exactly once and no other row, the
\* newer before the older, and count is the number of rows listed.
C13_ListingIsAvailableNewestFirst ==
  [][\A r \in Slots :
       LET q == req'[r] IN
       req[r].pc = "idle" /\ q.kind = "list_products" /\ q.status = 200
         => /\ {q.rows[i] : i \in 1 .. Len(q.rows)} = {p \in products : p.isAvailable}
            /\ Len(q.rows) = Cardinality({p \in products : p.isAvailable})
            /\ \A i, j \in 1 .. Len(q.rows) :
                 i < j => q.rows[i].createdAt >= q.rows[j].createdAt
            /\ q.count = Len(q.rows)
    ]_vars

\* A listing of two products created on different days, newest first, while
\* a third product, withdrawn, is not listed.
C13_Witness ==
  \E r \in Slots :
    /\ Done(r, "list_products")
    /\ req[r].status = 200
    /\ req[r].count = 2
    /\ req[r].rows[1].createdAt > req[r].rows[2].createdAt
    /\ Cardinality(products) = 3
    /\ \E p \in products : ~p.isAvailable

\* The response is a successful one of register, login or me.
Succeeded(q) ==
  /\ q.pc = "done"
  /\ \/ q.kind = "register" /\ q.status = 201
     \/ q.kind = "login" /\ q.status = 200
     \/ q.kind = "me" /\ q.status = 200

\* C12: the user object of every successful response of register, login and
\* me is that of a stored user and has no password field; a successful
\* register or login response carries a token the server issued for that
\* user.
C12_NoPasswordInResponses ==
  \A r \in Slots :
    LET q == req[r] IN
    Succeeded(q)
      => /\ "password" \notin DOMAIN q.user
         /\ q.user.id \in Ids(users)
         /\ q.kind \in {"register", "login"}
              => q.token.form = "jwt" /\ q.token \in issued /\ q.token.userId = q.user.id

\* GET /api/auth/me answered 200 with the second registered user, whose
\* stored row holds the digest of the password, after two tokens were issued.
C12_Witness ==
  \E r \in Slots :
    /\ Done(r, "me")
    /\ req[r].status = 200
    /\ req[r].user.id = 2
    /\ \E u \in users : u.id = 2 /\ u.password = Hash("Str0ng!Pass")
    /\ Cardinality(issued) >= 2

\* The data layer rejected the request's row: a validation error, a value the
\* column type refuses, a unique index or a foreign key.
Rejected(q) ==
  q.thrown \in {"SequelizeValidationError", "SequelizeUniqueConstraintError",
                "SequelizeForeignKeyConstraintError", "SequelizeDatabaseError"}

\* C15: a register or product request whose row the data layer rejects is
\* answered 400 and stores no row.
C15_RejectedRowsAre400 ==
  \A r \in Slots :
    LET q == req[r] IN
    /\ q.pc = "done"
    /\ q.kind \in {"register", "product"}
    /\ q.at \in {"reg_create", "prod_create"}
    /\ Rejected(q)
    => q.status = 400 /\ q.made = NULL

\* C16: a request during which a data-layer call failed on the connection is
\* answered 500.
C16_ConnectivityIs500 ==
  \A r \in Slots :
    req[r].pc = "done" /\ ConnectionLost(req[r]) => req[r].status = 500

\* C17: in production mode no 500 response carries the message of the error
\* that caused it.
C17_NoDetailInProduction ==
  \A r \in Slots :
    LET q == req[r] IN
    q.pc = "done" /\ q.status = 500 /\ mode = "production" => q.details # q.thrown

\* C18: a get-by-id request is answered 200 with the row when its id names a
\* row and 404 when it does not, whatever the id looks like.
C18_UnknownIdIs404 ==
  \A r \in Slots :
    LET q == req[r]
        table == IF q.kind = "get_product" THEN products ELSE groups
    IN
    /\ q.pc = "done"
    /\ q.kind \in {"get_product", "get_group"}
    /\ ~ConnectionLost(q)
    => /\ q.body.id \in Ids(table) => q.status = 200 /\ q.rows[1].id = q.body.id
       /\ q.body.id \notin Ids(table) => q.status = 404

\* C19: an authenticated product request with title, description and price
\* and no categoryId, while a Category exists, is answered 201 with the
\* product stored under an existing category.
C19_DefaultCategory ==
  \A r \in Slots :
    LET q == req[r] IN
    /\ Done(r, "product")
    /\ q.userId # NULL
    /\ q.body.title # "" /\ q.body.description # "" /\ ~PriceFalsy(q.body.price)
    /\ q.body.categoryId = NULL
    /\ categories # {}
    /\ ~ConnectionLost(q)
    => /\ q.status = 201
       /\ \E p \in products : p.id = q.made /\ p.categoryId \in Ids(categories)

\* C20: every stored Product row has a price that is a number greater than
\* zero.
C20_PricesArePositive ==
  \A p \in products : ~p.price.nan /\ p.price.cents > 0

\* C21: the process listens only after the connectivity check and then the
\* schema sync have both succeeded, in that order; when the connectivity check
\* or the sync fails the process has exited with a failure code without ever
\* listening, and an exited process takes no further step.
C21_ListenAfterCheckAndSync ==
  /\ [](/\ proc.phase = "serving" => proc.order = <<"authenticate", "sync", "listen">>
        /\ \A i \in 1 .. Len(proc.order) :
             /\ proc.order[i] = "listen" => i = 3 /\ proc.order[2] = "sync"
             /\ proc.order[i] = "sync" => i = 2 /\ proc.order[1] = "authenticate"
        /\ proc.failed # ""
             => /\ proc.phase = "exited"
                /\ proc.exit = "exit(1)"
                /\ \A i \in 1 .. Len(proc.order) : proc.order[i] # "listen")
  /\ [][proc.phase = "exited" => proc' = proc]_vars

\* The server listens and answers a health check, having passed both startup
\* steps.
C21_Witness ==
  /\ proc.phase = "serving"
  /\ proc.order = <<"authenticate", "sync", "listen">>
  /\ Done(1, "health")

\* C22: once SIGTERM or SIGINT was received, during startup or while
\* serving, a process that has exited has exited with code 0 and after the
\* database connection was closed.
C22_SignalClosesThenExitsZero ==
  proc.phase = "exited" /\ proc.closing # {} => proc.exit = "exit(0)" /\ proc.closed

\* C23: every health check is answered 200 with status, message and
\* timestamp.
C23_HealthAlways200 ==
  \A r \in Slots :
    Done(r, "health") => req[r].status = 200 /\ req[r].user = HealthBody(req[r].time)

\* The keys a schema requires.
RequiredKeys(schema) == {schema[i].key : i \in {j \in 1 .. Len(schema) : schema[j].required}}

ProductKinds == {"validateProduct", "validateProductUpdate"}

\* C24: a body that carries every field the create schema requires is
\* accepted by the update schema exactly when it is accepted by the create
\* schema, and each of its fields is declared by both schemas or by neither.
C24_UpdateAgreesWithCreate ==
  \A r \in Slots :
    LET q == req[r] IN
    /\ q.kind \in ProductKinds
    /\ q.pc \in {"next", "done"}
    /\ RequiredKeys(productSchema) \subseteq DOMAIN q.sent
    => /\ (Violations(productSchema, q.sent) = <<>>)
            <=> (Violations(updateProductSchema, q.sent) = <<>>)
       /\ \A k \in DOMAIN q.sent :
            k \in SchemaKeys(productSchema) <=> k \in SchemaKeys(updateProductSchema)

SchemaOf(kind) ==
  IF kind = "validateRegistration" THEN registrationSchema
  ELSE IF kind = "validateLogin" THEN loginSchema
  ELSE IF kind = "validateProduct" THEN productSchema
  ELSE updateProductSchema

ValidationKinds ==
  {"validateRegistration", "validateLogin", "validateProduct", "validateProductUpdate"}

\* The place of a reported field in the order of the schema; the fields the
\* schema does not declare come last.
Place(schema, field) ==
  IF Declared(schema, field) = {} THEN Len(schema) + 1
  ELSE CHOOSE i \in Declared(schema, field) : TRUE

\* C25: a body handled by a validation middleware is left as it was sent and
\* meets exactly one of two outcomes.  If it fails no rule, next() was called
\* and no response sent.  If it fails k >= 1 rules, 400 'Validation failed'
\* was sent with k entries, one (field, message) per failed rule, every
\* failing field among them, in the order of the schema, and next() was not
\* called.
C25_ValidationDichotomy ==
  \A r \in Slots :
    LET q == req[r]
        schema == SchemaOf(q.kind)
        vs == Violations(schema, q.sent)
    IN q.kind \in ValidationKinds /\ q.pc # "idle"
       => /\ q.body = q.sent
          /\ q.pc \in {"next", "done"}
          /\ q.pc = "next" <=> vs = <<>>
          /\ q.pc = "next" => q.status = 0 /\ q.error = "" /\ q.details = ""
          /\ q.pc = "done"
               => /\ q.status = 400
                  /\ q.error = "Validation failed"
                  /\ Len(q.details) = Len(vs)
                  /\ Len(q.details) >= 1
                  /\ \A i \in 1 .. Len(vs) :
                       /\ q.details[i].field = vs[i].key
                       /\ q.details[i].message = Message(schema, vs[i])
                  /\ \A i \in 1 .. Len(schema) :
                       KeyViolations(schema[i], q.sent) # <<>>
                         => \E j \in 1 .. Len(q.details) : q.details[j].field = schema[i].key
                  /\ \A i, j \in 1 .. Len(q.details) :
                       i < j => Place(schema, q.details[i].field)
                                  <= Place(schema, q.details[j].field)

\* A registration body with a malformed email and a password that is both
\* too short and without the required characters was answered 400 with an
\* entry for each of the three failures, the email's first.
C25_Witness ==
  /\ Done(1, "validateRegistration")
  /\ req[1].status = 400
  /\ Len(req[1].details) = 3
  /\ req[1].details[1].field = "email"
  /\ req[1].details[2].field = "password"
  /\ req[1].details[3].field = "password"
  /\ req[1].details[2].message # req[1].details[3].message

\* The records a report accounts for: created, skipped or failed.
Accounted(report) ==
  report.carnivalGroups.created + report.carnivalGroups.skipped
    + report.categories.created + report.categories.skipped + report.failed

\* C26: in the seeding loops every record handled so far is counted exactly
\* once as created, skipped or failed; a turn of a loop, failed or not, goes
\* on to the next record, from the last group to the first category, and from
\* the last category to the return of the statistics; and the statistics
\* returned account for every record of both lists.
C26_FailureDoesNotAbort ==
  /\ [](/\ seed.pc = "groups" => Accounted(seed.stats) = seed.i - 1
        /\ seed.pc = "categories"
             => Accounted(seed.stats) = Len(carnivalGroupsData) + seed.i - 1
        /\ seed.pc = "idle" /\ seed.last.success
             => /\ Accounted(seed.last) = Len(carnivalGroupsData) + Len(categoriesData)
                /\ seed.last.carnivalGroups.created + seed.last.carnivalGroups.skipped
                     <= Len(carnivalGroupsData)
                /\ seed.last.categories.created + seed.last.categories.skipped
                     <= Len(categoriesData))
  /\ [][seed.pc \in {"groups", "categories"}
          => \/ seed'.pc = seed.pc /\ seed'.i = seed.i + 1
             \/ /\ seed.pc = "groups" /\ seed.i = Len(carnivalGroupsData)
                /\ seed'.pc = "categories" /\ seed'.i = 1
             \/ /\ seed.pc = "categories" /\ seed.i = Len(categoriesData)
                /\ seed'.pc = "idle" /\ seed'.last.success]_vars

\* The findOrCreate of the first group failed; the second group and every
\* category were still created and the invocation returned its statistics.
C26_Witness ==
  /\ seed.pc = "idle"
  /\ seed.last.success
  /\ seed.last.failed = 1
  /\ seed.last.carnivalGroups = [created |-> 1, skipped |-> 0]
  /\ seed.last.categories = [created |-> Len(categoriesData), skipped |-> 0]
  /\ \A g \in groups : g.name = carnivalGroupsData[2].name
  /\ Cardinality(groups) = 1

\* C27: a register request answered with a status other than 201 has
\* inserted no User row and no CarnivalGroup row, and a register request that
\* inserted a User row is answered 201.
C27_FailedRegisterChangesNothing ==
  \A r \in Slots :
    LET q == req[r] IN
    Done(r, "register")
      => /\ q.status # 201 => q.madeGroup = NULL /\ q.made = NULL
         /\ q.made # NULL => q.status = 201

\* C28: a register request answered 400 'User already exists with this
\* email' or 'Email already exists' finds, when it is answered, a User row
\* with its email.
C28_EmailMessageMeansEmailTaken ==
  \A r \in Slots :
    LET q == req[r] IN
    /\ Done(r, "register")
    /\ q.status = 400
    /\ q.error \in {"User already exists with this email", "Email already exists"}
    => \E u \in users : u.email = q.body.email
====
